---- MODULE Spec2Model ----
(***************************************************************************)
(* file_crawler (src/src/main.rs): the dispatch block of main (lines       *)
(* 101-122) with the enumeration units (read_path) and the aggregator      *)
(* (file_recorder), and the diff of two records (compare_analysis).        *)
(*                                                                         *)
(* Spec     : one run of the dispatch over a set of target folders.        *)
(* FairSpec : Spec under a fair executor (every enabled task step is taken)*)
(* DiffSpec : one run of compare_analysis over two record files.           *)
(***************************************************************************)
EXTENDS Integers, Sequences, FiniteSets, TLC

VARIABLES
    folders,            \* main: the HashSet<String> of target folders
    slow_mode,          \* SLOW_MODE flag
    main_pc,            \* position of main in lines 101-129
    tx_alive,           \* main's own sender `tx` not yet dropped
    unit_pc,            \* per folder: position of its read_path call
    open_result,        \* per folder: what fs::read_dir returned
    unit_entries,       \* per folder: read_path's local entries_info vector
    batch_sends,        \* per folder: number of unbounded_send calls made
    send_failed,        \* per folder: unbounded_send returned Err
    channel,            \* messages queued in the unbounded mpsc channel
    receiver_closed,    \* receiver.close() has been called
    receiver_dropped,   \* the receiver has been dropped
    recorder_pc,        \* position of file_recorder
    jobs_working,       \* file_recorder's parameter
    jobs_done,          \* file_recorder's counter
    entries_info,       \* file_recorder's HashSet<EntryInfo>, in insertion order
    signals_received,   \* number of iterations of the receive loop
    crawl,              \* the Crawl values file_recorder has built
    diff_pc,            \* position of compare_analysis
    first_file,         \* contents of the first record file
    second_file,        \* contents of the second record file
    first_analysis,     \* deserialized first Crawl
    second_analysis,    \* deserialized second Crawl
    not_changed_iter,   \* entries_not_changed still to be visited
    changed_iter,       \* entries_changed still to be visited
    difference_analysis \* the Vec<EntryDifference> under construction

dispatch_vars == <<folders, slow_mode, main_pc, tx_alive, unit_pc, open_result,
                   unit_entries, batch_sends, send_failed, channel,
                   receiver_closed, receiver_dropped, recorder_pc, jobs_working,
                   jobs_done, entries_info, signals_received, crawl>>

diff_vars == <<diff_pc, first_file, second_file, first_analysis, second_analysis,
               not_changed_iter, changed_iter, difference_analysis>>

vars == <<dispatch_vars, diff_vars>>

(***************************************************************************)
(* Bounds                                                                  *)
(***************************************************************************)
NumDirs == 3

MaxEntries == 3

Dirs == 1..NumDirs

Range(s) == {s[i] : i \in 1..Len(s)}

(***************************************************************************)
(* Data types                                                              *)
(***************************************************************************)
TOOL_REVISION == 1

EntryType == {"File", "Directory", "Unknown"}

EntryInfo(entry_type, path, octets) ==
    [entry_type |-> entry_type, path |-> path, octets |-> octets]

\* Same (kind, path), whatever the size.
EntryEqIgnoringOctets(a, b) ==
    a.entry_type = b.entry_type /\ a.path = b.path

\* EntryInfo's derived PartialEq (line 177): all three fields.
EntryEq(a, b) ==
    a.entry_type = b.entry_type /\ a.path = b.path /\ a.octets = b.octets

EntriesVec(entries) == [signal |-> "EntriesVec", entries |-> entries]

Close == [signal |-> "Close", entries |-> <<>>]

(***************************************************************************)
(* The file system the enumeration units observe.  A child of a directory  *)
(* is what one item of fs::read_dir is: whether the item itself is Ok,     *)
(* whether its path still exists, what is_file/is_dir answer, whether      *)
(* to_str succeeds, and the results entry.metadata() may give (a file may  *)
(* be rewritten between two enumerations).                                 *)
(***************************************************************************)
Metadata(ok, len) == [ok |-> ok, len |-> len]

DirEntry(path, item_ok, exists, is_file, is_dir, to_str, metadata) ==
    [path |-> path, item_ok |-> item_ok, exists |-> exists, is_file |-> is_file,
     is_dir |-> is_dir, to_str |-> to_str, metadata |-> metadata]

RegularFile(path, lens) ==
    DirEntry(path, TRUE, TRUE, TRUE, FALSE, TRUE, {Metadata(TRUE, n) : n \in lens})

\* Folders 1 and 2 name the same directory ("C:\data" and "C:\data\"), so
\* both list the child "C:\data\x"; folder 3 holds the degraded children,
\* two of them with names that are not valid Unicode; any further folder
\* is empty.
ReadDir(d) ==
    IF d = 1 THEN
        << RegularFile("data/x", {100, 200}),
           DirEntry("data/sub", TRUE, TRUE, FALSE, TRUE, TRUE,
                    {Metadata(TRUE, 0), Metadata(TRUE, 4096)}) >>
    ELSE IF d = 2 THEN
        << RegularFile("data/x", {100, 200}),
           DirEntry("data/gone", TRUE, FALSE, FALSE, FALSE, TRUE, {Metadata(FALSE, 0)}),
           DirEntry("data/bad", FALSE, TRUE, TRUE, FALSE, TRUE, {Metadata(TRUE, 5)}),
           RegularFile("data/y", {50}) >>
    ELSE IF d = 3 THEN
        << DirEntry("tmp/raw1", TRUE, TRUE, TRUE, FALSE, FALSE, {Metadata(TRUE, 7)}),
           DirEntry("tmp/raw2", TRUE, TRUE, TRUE, FALSE, FALSE,
                    {Metadata(TRUE, 7), Metadata(TRUE, 9)}),
           DirEntry("tmp/locked", TRUE, TRUE, TRUE, FALSE, TRUE, {Metadata(FALSE, 0)}),
           DirEntry("tmp/lnk", TRUE, TRUE, FALSE, FALSE, TRUE, {Metadata(TRUE, 0)}) >>
    ELSE << >>

OpenErrors == {"PermissionDenied", "NotFound"}

\* The metadata observations one enumeration of `children` can make.
Observations(children) ==
    {obs \in [1..Len(children) -> UNION {c.metadata : c \in Range(children)}] :
        \A i \in 1..Len(children) : obs[i] \in children[i].metadata}

(***************************************************************************)
(* read_path, lines 422-467: the classification of one child and the loop  *)
(***************************************************************************)
ClassifyType(child) ==
    IF child.is_file THEN "File"
    ELSE IF child.is_dir THEN "Directory"
    ELSE "Unknown"

PathText(child) == IF child.to_str THEN child.path ELSE "Invalid path"

Octets(meta) == IF meta.ok THEN meta.len ELSE 0

Classify(child, meta) == EntryInfo(ClassifyType(child), PathText(child), Octets(meta))

RECURSIVE EnumerateFrom(_, _, _)
EnumerateFrom(children, obs, i) ==
    IF i > Len(children) THEN << >>
    ELSE IF ~children[i].item_ok \/ ~children[i].exists
         THEN EnumerateFrom(children, obs, i + 1)
         ELSE <<Classify(children[i], obs[i])>> \o EnumerateFrom(children, obs, i + 1)

Enumerate(children, obs) == EnumerateFrom(children, obs, 1)

(***************************************************************************)
(* file_recorder, lines 353-366: HashSet insertion and the job counter     *)
(***************************************************************************)
InsertPush(set, entry) == Append(set, entry)

Insert(set, entry) ==
    IF \E i \in 1..Len(set) : EntryEq(set[i], entry) THEN set ELSE Append(set, entry)

RECURSIVE InsertAllFrom(_, _, _)
InsertAllFrom(set, entries, i) ==
    IF i > Len(entries) THEN set
    ELSE InsertAllFrom(Insert(set, entries[i]), entries, i + 1)

InsertAllReplacing(set, entries) == InsertAllFrom(<< >>, entries, 1)

InsertAll(set, entries) == InsertAllFrom(set, entries, 1)

JobsCompleteEarly(done, working) == done + 1 >= working

JobsComplete(done, working) == done = working

NoCrawl == << >>

Crawl(entries) ==
    [used_tool_revision |-> TOOL_REVISION,
     entry_count |-> Len(entries),
     entries_info |-> entries]

(***************************************************************************)
(* futures::channel::mpsc unbounded channel                                *)
(***************************************************************************)
\* unbounded_send fails once the receiver is closed or dropped.
SendFails == receiver_closed \/ receiver_dropped

\* next() yields None when the queue is drained and the channel is closed
\* or every sender is gone.
LiveSenders ==
    (IF tx_alive THEN 1 ELSE 0)
    + Cardinality({d \in Dirs : unit_pc[d] \in {"opening", "sending"}})

StreamEndedWhenSendersGone == channel = << >> /\ LiveSenders = 0

StreamEnded == channel = << >> /\ (receiver_closed \/ LiveSenders = 0)

(***************************************************************************)
(* Initial states                                                          *)
(***************************************************************************)
DiffIdle ==
    /\ diff_pc = "idle"
    /\ first_file = << >>
    /\ second_file = << >>
    /\ first_analysis = << >>
    /\ second_analysis = << >>
    /\ not_changed_iter = {}
    /\ changed_iter = {}
    /\ difference_analysis = << >>

DispatchIdle ==
    /\ tx_alive = FALSE
    /\ unit_pc = [d \in Dirs |-> "idle"]
    /\ open_result = [d \in Dirs |-> "none"]
    /\ unit_entries = [d \in Dirs |-> << >>]
    /\ batch_sends = [d \in Dirs |-> 0]
    /\ send_failed = [d \in Dirs |-> FALSE]
    /\ channel = << >>
    /\ receiver_closed = FALSE
    /\ receiver_dropped = FALSE
    /\ recorder_pc = "unspawned"
    /\ jobs_working = 0
    /\ jobs_done = 0
    /\ entries_info = << >>
    /\ signals_received = 0
    /\ crawl = NoCrawl

\* main at line 99: the folder set is loaded, the mode flag is read.
Init ==
    /\ folders \in SUBSET Dirs
    /\ slow_mode \in BOOLEAN
    /\ main_pc = "channel"
    /\ DispatchIdle
    /\ DiffIdle

(***************************************************************************)
(* main, lines 101-129                                                     *)
(***************************************************************************)
\* lines 101-103: create the channel, spawn file_recorder(rx, folders.len())
MainSpawnRecorder ==
    /\ main_pc = "channel"
    /\ main_pc' = "dispatch"
    /\ tx_alive' = TRUE
    /\ recorder_pc' = "loop"
    /\ jobs_working' = Cardinality(folders)
    /\ UNCHANGED <<folders, slow_mode, unit_pc, open_result, unit_entries,
                   batch_sends, send_failed, channel, receiver_closed,
                   receiver_dropped, jobs_done, entries_info, signals_received,
                   crawl>>
    /\ UNCHANGED diff_vars

Returned(pcs, d) == pcs[d] = "returned"

AllStarted(pcs, fs) == \A d \in fs : pcs[d] # "idle"

AllReturned(pcs, fs) == \A d \in fs : Returned(pcs, d)

\* lines 108-110: in slow mode main awaits each read_path call before the
\* for loop takes the next path; in fast mode the calls are spawned.
PreviousCallSpawned(slow, pcs, fs) == TRUE

PreviousCallAwaited(slow, pcs, fs) ==
    slow => \A o \in fs : pcs[o] \in {"idle", "returned"}

\* lines 108-110 (slow mode): read_path(path, tx.clone()).await for the next
\* path of the set, once the previous call has returned.
\* lines 114-118 (fast mode): task::spawn(read_path(path, tx.clone())).
MainStartUnit(d) ==
    /\ main_pc = "dispatch"
    /\ d \in folders
    /\ unit_pc[d] = "idle"
    /\ PreviousCallAwaited(slow_mode, unit_pc, folders)
    /\ unit_pc' = [unit_pc EXCEPT ![d] = "opening"]
    /\ UNCHANGED <<folders, slow_mode, main_pc, tx_alive, open_result,
                   unit_entries, batch_sends, send_failed, channel,
                   receiver_closed, receiver_dropped, recorder_pc, jobs_working,
                   jobs_done, entries_info, signals_received, crawl>>
    /\ UNCHANGED diff_vars

\* line 110 / line 119: the loop is over, resp. join_all has resolved;
\* line 121: let _ = tx.unbounded_send(RecorderSignal::Close)
MainSendClose ==
    /\ main_pc = "dispatch"
    /\ AllReturned(unit_pc, folders)
    /\ main_pc' = "await_recorder"
    /\ channel' = IF SendFails THEN channel ELSE Append(channel, Close)
    /\ UNCHANGED <<folders, slow_mode, tx_alive, unit_pc, open_result,
                   unit_entries, batch_sends, send_failed, receiver_closed,
                   receiver_dropped, recorder_pc, jobs_working, jobs_done,
                   entries_info, signals_received, crawl>>
    /\ UNCHANGED diff_vars

\* lines 122-129: recorder_work.await, then main runs to its end (tx dropped)
MainJoinRecorder ==
    /\ main_pc = "await_recorder"
    /\ recorder_pc \in {"done", "failed"}
    /\ main_pc' = "exit"
    /\ tx_alive' = FALSE
    /\ UNCHANGED <<folders, slow_mode, unit_pc, open_result, unit_entries,
                   batch_sends, send_failed, channel, receiver_closed,
                   receiver_dropped, recorder_pc, jobs_working, jobs_done,
                   entries_info, signals_received, crawl>>
    /\ UNCHANGED diff_vars

(***************************************************************************)
(* read_path, lines 401-480                                                *)
(***************************************************************************)
\* lines 406-418: fs::read_dir fails; print and return (the sender is dropped)
ReadPathOpenFails(d) ==
    /\ unit_pc[d] = "opening"
    /\ \E err \in OpenErrors : open_result' = [open_result EXCEPT ![d] = err]
    /\ unit_pc' = [unit_pc EXCEPT ![d] = "returned"]
    /\ UNCHANGED <<folders, slow_mode, main_pc, tx_alive, unit_entries,
                   batch_sends, send_failed, channel, receiver_closed,
                   receiver_dropped, recorder_pc, jobs_working, jobs_done,
                   entries_info, signals_received, crawl>>
    /\ UNCHANGED diff_vars

\* lines 406-467: fs::read_dir succeeds; the loop fills entries_info
ReadPathEnumerate(d) ==
    /\ unit_pc[d] = "opening"
    /\ open_result' = [open_result EXCEPT ![d] = "Ok"]
    /\ \E obs \in Observations(ReadDir(d)) :
          unit_entries' = [unit_entries EXCEPT ![d] = Enumerate(ReadDir(d), obs)]
    /\ unit_pc' = [unit_pc EXCEPT ![d] = "sending"]
    /\ UNCHANGED <<folders, slow_mode, main_pc, tx_alive, batch_sends,
                   send_failed, channel, receiver_closed, receiver_dropped,
                   recorder_pc, jobs_working, jobs_done, entries_info,
                   signals_received, crawl>>
    /\ UNCHANGED diff_vars

\* lines 473-479: sender.unbounded_send(EntriesVec(entries_info)); drop(sender)
ReadPathSend(d) ==
    /\ unit_pc[d] = "sending"
    /\ batch_sends' = [batch_sends EXCEPT ![d] = @ + 1]
    /\ send_failed' = [send_failed EXCEPT ![d] = SendFails]
    /\ channel' = IF SendFails THEN channel
                  ELSE Append(channel, EntriesVec(unit_entries[d]))
    /\ unit_pc' = [unit_pc EXCEPT ![d] = "returned"]
    /\ UNCHANGED <<folders, slow_mode, main_pc, tx_alive, open_result,
                   unit_entries, receiver_closed, receiver_dropped, recorder_pc,
                   jobs_working, jobs_done, entries_info, signals_received,
                   crawl>>
    /\ UNCHANGED diff_vars

(***************************************************************************)
(* file_recorder, lines 346-399                                            *)
(***************************************************************************)
\* lines 351-367: receiver.next() yields a batch
RecorderEntriesVec ==
    /\ recorder_pc = "loop"
    /\ channel # << >>
    /\ Head(channel).signal = "EntriesVec"
    /\ channel' = Tail(channel)
    /\ signals_received' = signals_received + 1
    /\ entries_info' = InsertAll(entries_info, Head(channel).entries)
    /\ jobs_done' = jobs_done + 1
    /\ IF JobsComplete(jobs_done + 1, jobs_working)
       THEN recorder_pc' = "persist" /\ receiver_dropped' = TRUE
       ELSE recorder_pc' = "loop" /\ receiver_dropped' = receiver_dropped
    /\ UNCHANGED <<folders, slow_mode, main_pc, tx_alive, unit_pc, open_result,
                   unit_entries, batch_sends, send_failed, receiver_closed,
                   jobs_working, crawl>>
    /\ UNCHANGED diff_vars

\* lines 351, 368: receiver.next() yields Close; receiver.close()
RecorderClose ==
    /\ recorder_pc = "loop"
    /\ channel # << >>
    /\ Head(channel).signal = "Close"
    /\ channel' = Tail(channel)
    /\ signals_received' = signals_received + 1
    /\ receiver_closed' = TRUE
    /\ UNCHANGED <<folders, slow_mode, main_pc, tx_alive, unit_pc, open_result,
                   unit_entries, batch_sends, send_failed, receiver_dropped,
                   recorder_pc, jobs_working, jobs_done, entries_info, crawl>>
    /\ UNCHANGED diff_vars

\* lines 351, 372-375: receiver.next() yields None; drop(receiver)
RecorderStreamEnd ==
    /\ recorder_pc = "loop"
    /\ StreamEnded
    /\ recorder_pc' = "persist"
    /\ receiver_dropped' = TRUE
    /\ UNCHANGED <<folders, slow_mode, main_pc, tx_alive, unit_pc, open_result,
                   unit_entries, batch_sends, send_failed, channel,
                   receiver_closed, jobs_working, jobs_done, entries_info,
                   signals_received, crawl>>
    /\ UNCHANGED diff_vars

\* lines 377-398: File::create; on Ok build the Crawl and write it
RecorderPersist ==
    /\ recorder_pc = "persist"
    /\ \E created \in BOOLEAN :
          IF created
          THEN recorder_pc' = "done" /\ crawl' = Append(crawl, Crawl(entries_info))
          ELSE recorder_pc' = "failed" /\ crawl' = crawl
    /\ UNCHANGED <<folders, slow_mode, main_pc, tx_alive, unit_pc, open_result,
                   unit_entries, batch_sends, send_failed, channel,
                   receiver_closed, receiver_dropped, jobs_working, jobs_done,
                   entries_info, signals_received>>
    /\ UNCHANGED diff_vars

Next ==
    \/ MainSpawnRecorder
    \/ \E d \in Dirs : MainStartUnit(d)
    \/ MainSendClose
    \/ MainJoinRecorder
    \/ \E d \in Dirs : ReadPathOpenFails(d)
    \/ \E d \in Dirs : ReadPathEnumerate(d)
    \/ \E d \in Dirs : ReadPathSend(d)
    \/ RecorderEntriesVec
    \/ RecorderClose
    \/ RecorderStreamEnd
    \/ RecorderPersist

Spec == Init /\ [][Next]_vars

(***************************************************************************)
(* Record files and their deserialization (serde, lines 170-206, 257-261)  *)
(***************************************************************************)
\* One object of a record file's "Entries" array.  Octets is the set of
\* values the "Octets" key carries: empty when the key is omitted.
JsonEntry(type, path, octets) == [Type |-> type, Path |-> path, Octets |-> octets]

JsonEntries ==
    { JsonEntry("File", "a", {100}),
      JsonEntry("File", "a", {200}),
      JsonEntry("File", "b", {100}),
      JsonEntry("Directory", "a", {0}),
      JsonEntry("Directory", "b", {}) }

RecordFile(entries) ==
    [ToolRevision |-> TOOL_REVISION, EntryCount |-> Cardinality(entries),
     Entries |-> entries]

RecordFiles ==
    {RecordFile(es) : es \in {s \in SUBSET JsonEntries : Cardinality(s) <= MaxEntries}}

\* EntryInfo derives Deserialize and octets carries no serde default:
\* an object without "Octets" is a "missing field" error.
EntryParses(json) == json.Octets # {}

ParsedEntry(json) ==
    EntryInfo(json.Type, json.Path, CHOOSE n \in json.Octets : TRUE)

FileParses(file) == \A json \in file.Entries : EntryParses(json)

\* serde_json::from_slice::<Crawl>: the array is collected into a HashSet.
ParsedCrawl(file) ==
    [used_tool_revision |-> file.ToolRevision,
     entry_count |-> file.EntryCount,
     entries_info |-> {ParsedEntry(json) : json \in file.Entries}]

(***************************************************************************)
(* compare_analysis, lines 256-344                                         *)
(***************************************************************************)
Some(x) == <<x>>

EntryDifference(entry_type, difference_type, path, octets_difference) ==
    [entry_type |-> entry_type, difference_type |-> difference_type,
     path |-> path, octets_difference |-> octets_difference]

\* lines 296-298
Intersection(first, second) == first \cap second

\* lines 300-302
DifferenceKeepsAll(first, second) == first

Difference(first, second) == first \ second

\* lines 307-312
NoChangeDifference(entry) ==
    EntryDifference(entry.entry_type, "NoChange", Some(entry.path), 0)

\* lines 316-321
NewDifference(entry) ==
    EntryDifference(entry.entry_type, "New", Some(entry.path), entry.octets)

\* main at line 73: the two record files named there hold some records.
InitDiff ==
    /\ folders = {}
    /\ slow_mode = FALSE
    /\ main_pc = "compare"
    /\ DispatchIdle
    /\ diff_pc = "deserialize"
    /\ first_file \in RecordFiles
    /\ second_file \in RecordFiles
    /\ first_analysis = << >>
    /\ second_analysis = << >>
    /\ not_changed_iter = {}
    /\ changed_iter = {}
    /\ difference_analysis = << >>

\* lines 257-261: a record that does not parse makes unwrap() panic
ComparePanic ==
    /\ diff_pc = "deserialize"
    /\ ~FileParses(first_file) \/ ~FileParses(second_file)
    /\ diff_pc' = "panicked"
    /\ UNCHANGED <<first_file, second_file, first_analysis, second_analysis,
                   not_changed_iter, changed_iter, difference_analysis>>
    /\ UNCHANGED dispatch_vars

\* lines 257-304: both records parse; the two set iterators are built
CompareDeserialize ==
    /\ diff_pc = "deserialize"
    /\ FileParses(first_file) /\ FileParses(second_file)
    /\ first_analysis' = ParsedCrawl(first_file)
    /\ second_analysis' = ParsedCrawl(second_file)
    /\ not_changed_iter' = Intersection(ParsedCrawl(first_file).entries_info,
                                        ParsedCrawl(second_file).entries_info)
    /\ changed_iter' = Difference(ParsedCrawl(first_file).entries_info,
                                  ParsedCrawl(second_file).entries_info)
    /\ diff_pc' = "classify"
    /\ UNCHANGED <<first_file, second_file, difference_analysis>>
    /\ UNCHANGED dispatch_vars

\* lines 306-313: one iteration of the loop over entries_not_changed
CompareNotChanged ==
    /\ diff_pc = "classify"
    /\ \E entry \in not_changed_iter :
          /\ difference_analysis' = Append(difference_analysis, NoChangeDifference(entry))
          /\ not_changed_iter' = not_changed_iter \ {entry}
    /\ UNCHANGED <<diff_pc, first_file, second_file, first_analysis,
                   second_analysis, changed_iter>>
    /\ UNCHANGED dispatch_vars

\* lines 315-322: one iteration of the loop over entries_changed
CompareChanged ==
    /\ diff_pc = "classify"
    /\ not_changed_iter = {}
    /\ \E entry \in changed_iter :
          /\ difference_analysis' = Append(difference_analysis, NewDifference(entry))
          /\ changed_iter' = changed_iter \ {entry}
    /\ UNCHANGED <<diff_pc, first_file, second_file, first_analysis,
                   second_analysis, not_changed_iter>>
    /\ UNCHANGED dispatch_vars

\* lines 324-343: File::create, then the DifferenceAnalysis is written
CompareWrite ==
    /\ diff_pc = "classify"
    /\ not_changed_iter = {}
    /\ changed_iter = {}
    /\ \E created \in BOOLEAN :
          diff_pc' = IF created THEN "done" ELSE "create_failed"
    /\ UNCHANGED <<first_file, second_file, first_analysis, second_analysis,
                   not_changed_iter, changed_iter, difference_analysis>>
    /\ UNCHANGED dispatch_vars

\* lines 78-79: main prints the time and returns
MainReturnAfterCompare ==
    /\ main_pc = "compare"
    /\ diff_pc \in {"done", "create_failed"}
    /\ main_pc' = "exit"
    /\ UNCHANGED <<folders, slow_mode, tx_alive, unit_pc, open_result,
                   unit_entries, batch_sends, send_failed, channel,
                   receiver_closed, receiver_dropped, recorder_pc, jobs_working,
                   jobs_done, entries_info, signals_received, crawl>>
    /\ UNCHANGED diff_vars

NextDiff ==
    \/ ComparePanic
    \/ CompareDeserialize
    \/ CompareNotChanged
    \/ CompareChanged
    \/ CompareWrite
    \/ MainReturnAfterCompare

DiffSpec == InitDiff /\ [][NextDiff]_vars

(***************************************************************************)
(* Properties of the dispatch (Spec)                                       *)
(***************************************************************************)
Opened == {d \in folders : open_result[d] = "Ok"}

FailedToOpen == {d \in folders : open_result[d] \in OpenErrors}

\* The distinct (kind, path, size) triples of all batches the units produced.
ProducedEntries == UNION {Range(unit_entries[d]) : d \in Opened}

LoopLeft == recorder_pc \in {"persist", "done", "failed"}

Occurrences(seq, x) == Cardinality({i \in 1..Len(seq) : seq[i] = x})

EntriesAt(seq, path) == {i \in 1..Len(seq) : seq[i].path = path}

\* C1: in every run, for every number of target folders, the aggregator
\* builds at most one snapshot, exactly one once it has returned with its
\* record file created, and the entry count it freezes on leaving the loop,
\* which is the snapshot's entry_count, is the number of distinct
\* (kind, path, size) triples in all batches the units of the run produced.
C1_CompletionInvariant ==
    /\ Len(crawl) <= 1
    /\ recorder_pc \notin {"done"} => crawl = NoCrawl
    /\ LoopLeft => Len(entries_info) = Cardinality(ProducedEntries)
    /\ recorder_pc = "done" =>
          /\ Len(crawl) = 1
          /\ crawl[1].entry_count = Cardinality(ProducedEntries)

\* Two folders produced batches sharing a triple, and the snapshot counts
\* the three distinct triples of the four entries sent.
C1_Witness ==
    /\ recorder_pc = "done"
    /\ {1, 2} \subseteq Opened
    /\ unit_entries[1][1] = unit_entries[2][1]
    /\ Len(unit_entries[1]) + Len(unit_entries[2]) = 4
    /\ crawl[1].entry_count = 3

\* C2: every enumeration unit that has returned has sent exactly one batch,
\* also when its directory could not be opened (the batch is then empty).
C2_ExactlyOneBatch ==
    \A d \in folders :
        unit_pc[d] = "returned" =>
            /\ batch_sends[d] = 1
            /\ open_result[d] \in OpenErrors => unit_entries[d] = << >>

C4_FinalizesOnlyAtN ==
    LoopLeft => jobs_done = jobs_working

\* C5: when a target folder failed to open, in either mode, the finalized
\* snapshot holds every entry enumerated from every folder that did open.
C5_FailureDoesNotLoseBatches ==
    (LoopLeft /\ FailedToOpen # {}) =>
        /\ \A d \in Opened : Range(unit_entries[d]) \subseteq Range(entries_info)
        /\ recorder_pc = "done" =>
              \A d \in Opened :
                  Range(unit_entries[d]) \subseteq Range(crawl[1].entries_info)

\* Sequential mode, one folder failed and two opened with entries.
C5_Witness ==
    /\ recorder_pc = "done"
    /\ slow_mode
    /\ FailedToOpen # {}
    /\ Cardinality(Opened) >= 2
    /\ \A d \in Opened : unit_entries[d] # << >>
    /\ \A d \in Opened : Range(unit_entries[d]) \subseteq Range(crawl[1].entries_info)

\* C6: the finalized snapshot's entry set is the union of the entries of
\* all batches: a function of what the enumerations returned alone, the
\* same in sequential and in parallel mode and for every arrival order.
C6_ModeAndOrderIndependent ==
    \A mode \in BOOLEAN :
        (slow_mode = mode /\ recorder_pc = "done") =>
            Range(crawl[1].entries_info) = ProducedEntries

\* Parallel mode, and the batch of folder 2 was merged before that of
\* folder 1 (the snapshot starts with an entry only folder 2 reported).
C6_Witness ==
    /\ recorder_pc = "done"
    /\ ~slow_mode
    /\ {1, 2} \subseteq Opened
    /\ unit_entries[1][1] # unit_entries[2][1]
    /\ crawl[1].entries_info[1] = unit_entries[2][1]
    /\ Range(crawl[1].entries_info) = ProducedEntries

\* C7 as stated: a child path two folders both report has exactly one
\* entry in the finalized snapshot.
C7_OneEntryPerSharedPath ==
    recorder_pc = "done" =>
        \A d1, d2 \in Opened :
            \A e \in Range(unit_entries[d1]) :
                (d1 # d2 /\ \E o \in Range(unit_entries[d2]) : o.path = e.path) =>
                    Cardinality(EntriesAt(crawl[1].entries_info, e.path)) = 1

\* C7 as amended: every (kind, path, size) triple reported occurs exactly
\* once in the finalized snapshot, so a path two folders both report has
\* one entry per distinct (kind, size) it was reported with: exactly one
\* when both report the same kind and size.
C7_OneEntryPerTriple ==
    recorder_pc = "done" =>
        /\ \A e \in ProducedEntries : Occurrences(crawl[1].entries_info, e) = 1
        /\ \A e \in ProducedEntries :
              Cardinality(EntriesAt(crawl[1].entries_info, e.path))
                  = Cardinality({o \in ProducedEntries : o.path = e.path})

\* Folders 1 and 2 both reported the same child with the same size, and the
\* snapshot holds one entry for its path.
C7_Witness ==
    /\ recorder_pc = "done"
    /\ {1, 2} \subseteq Opened
    /\ unit_entries[1][1] = unit_entries[2][1]
    /\ Cardinality(EntriesAt(crawl[1].entries_info, unit_entries[1][1].path)) = 1

(***************************************************************************)
(* Properties of the diff (DiffSpec); first is `before`, second is `after` *)
(***************************************************************************)
Classified == diff_pc \in {"done", "create_failed"}

before == first_analysis.entries_info

after == second_analysis.entries_info

\* The differences of the report that refer to (kind, path) with a tag.
Differences(kind, path, tag) ==
    {i \in 1..Len(difference_analysis) :
        /\ difference_analysis[i].entry_type = kind
        /\ difference_analysis[i].path = Some(path)
        /\ difference_analysis[i].difference_type = tag}

SameKindPath(entries, e) == {o \in entries : EntryEqIgnoringOctets(o, e)}

\* C8: diff(A, A) reports one NoChange difference per entry of A and no
\* New, Removed or SizeChange difference.
C8_DiffOfSnapshotWithItself ==
    (Classified /\ before = after) =>
        /\ Len(difference_analysis) = Cardinality(before)
        /\ \A e \in before :
              Cardinality(Differences(e.entry_type, e.path, "NoChange"))
                  = Cardinality(SameKindPath(before, e))
        /\ \A i \in 1..Len(difference_analysis) :
              difference_analysis[i].difference_type = "NoChange"

\* A snapshot of three entries compared with itself.
C8_Witness ==
    /\ diff_pc = "done"
    /\ before = after
    /\ Cardinality(before) = 3
    /\ Len(difference_analysis) = 3

\* C9: a (kind, path) in both snapshots with different sizes gets exactly
\* one SizeChange difference with sizeDelta = |after.size - before.size|
\* and no New or Removed difference.
C9_SizeChange ==
    Classified =>
        \A b \in before : \A a \in after :
            (EntryEqIgnoringOctets(a, b) /\ a.octets # b.octets
                /\ Cardinality(SameKindPath(before, b)) = 1
                /\ Cardinality(SameKindPath(after, a)) = 1) =>
                /\ Cardinality(Differences(a.entry_type, a.path, "SizeChange")) = 1
                /\ \A i \in Differences(a.entry_type, a.path, "SizeChange") :
                      difference_analysis[i].octets_difference
                          = (IF a.octets >= b.octets THEN a.octets - b.octets
                                                     ELSE b.octets - a.octets)
                /\ Differences(a.entry_type, a.path, "New") = {}
                /\ Differences(a.entry_type, a.path, "Removed") = {}

\* C10: an entry of `after` whose (kind, path) is not in `before` gets a
\* New difference, and an entry in both snapshots gets a NoChange one.
C10_NewAndNoChange ==
    Classified =>
        /\ \A a \in after :
              SameKindPath(before, a) = {} =>
                  Differences(a.entry_type, a.path, "New") # {}
        /\ \A e \in before \cap after :
              Differences(e.entry_type, e.path, "NoChange") # {}

\* C11: a (kind, path) of `before` that `after` no longer holds gets a
\* Removed difference and no New difference.
C11_Removed ==
    Classified =>
        \A b \in before :
            SameKindPath(after, b) = {} =>
                /\ Differences(b.entry_type, b.path, "Removed") # {}
                /\ Differences(b.entry_type, b.path, "New") = {}

\* C12: every difference of the report that is not a SizeChange has
\* sizeDelta = 0.
C12_SizeDeltaZeroUnlessSizeChange ==
    Classified =>
        \A i \in 1..Len(difference_analysis) :
            difference_analysis[i].difference_type # "SizeChange" =>
                difference_analysis[i].octets_difference = 0

KindPaths(entries) == {<<e.entry_type, e.path>> : e \in entries}

DifferencesOf(kind, path) ==
    {i \in 1..Len(difference_analysis) :
        /\ difference_analysis[i].entry_type = kind
        /\ difference_analysis[i].path = Some(path)}

\* C14: every (kind, path) of `before` or of `after` has exactly one
\* difference in the report, and the report has no difference for a
\* (kind, path) of neither snapshot.
C14_EveryEntryClassifiedOnce ==
    Classified =>
        /\ \A kp \in KindPaths(before) \cup KindPaths(after) :
              Cardinality(DifferencesOf(kp[1], kp[2])) = 1
        /\ \A i \in 1..Len(difference_analysis) :
              \E kp \in KindPaths(before) \cup KindPaths(after) :
                  i \in DifferencesOf(kp[1], kp[2])

(***************************************************************************)
(* Properties of the enumeration (Spec)                                    *)
(***************************************************************************)
Enumerated == {d \in Opened : unit_pc[d] \in {"sending", "returned"}}

\* The children of folder d that read_path turns into an entry.
Listed(d) ==
    {i \in 1..Len(ReadDir(d)) : ReadDir(d)[i].item_ok /\ ReadDir(d)[i].exists}

MetadataUnreadable(child) == \A meta \in child.metadata : ~meta.ok

\* C13: every Directory entry the enumerator produces has size 0, and so
\* has every entry of a child whose metadata could not be read.
C13_DirectoriesAndUnreadableHaveSizeZero ==
    \A d \in Enumerated :
        /\ \A e \in Range(unit_entries[d]) :
              e.entry_type = "Directory" => e.octets = 0
        /\ \A i \in Listed(d) :
              MetadataUnreadable(ReadDir(d)[i]) =>
                  \A e \in Range(unit_entries[d]) :
                      e.path = PathText(ReadDir(d)[i]) => e.octets = 0

\* The children of the opened folders whose path is not valid Unicode.
InvalidPathChildren ==
    UNION {{<<d, i>> : i \in {j \in Listed(d) : ~ReadDir(d)[j].to_str}} : d \in Opened}

\* C19: every existing child whose path cannot be converted to text is an
\* entry of its own in the snapshot, under the path "Invalid path": k such
\* children make k entries of the snapshot's entry count.
C19_InvalidPathChildrenAllCounted ==
    recorder_pc = "done" =>
        /\ Cardinality(EntriesAt(crawl[1].entries_info, "Invalid path"))
              = Cardinality(InvalidPathChildren)
        /\ crawl[1].entry_count >= Cardinality(InvalidPathChildren)

(***************************************************************************)
(* Properties of the scheduling (Spec, FairSpec)                           *)
(***************************************************************************)
Running == {d \in folders : unit_pc[d] \in {"opening", "sending"}}

Fairness ==
    /\ WF_vars(MainSpawnRecorder)
    /\ WF_vars(\E d \in Dirs : MainStartUnit(d))
    /\ WF_vars(MainSendClose)
    /\ WF_vars(MainJoinRecorder)
    /\ \A d \in Dirs : WF_vars(ReadPathOpenFails(d) \/ ReadPathEnumerate(d))
    /\ \A d \in Dirs : WF_vars(ReadPathSend(d))
    /\ WF_vars(RecorderEntriesVec)
    /\ WF_vars(RecorderClose)
    /\ WF_vars(RecorderStreamEnd)
    /\ WF_vars(RecorderPersist)

FairSpec == Init /\ [][Next]_vars /\ Fairness

RecorderReturned == recorder_pc \in {"done", "failed"}

\* C16: in every fair run, in either mode and for any number of folders,
\* once every enumeration unit has returned the aggregator eventually
\* leaves its receive loop and runs to its end (building the snapshot when
\* its record file can be created), also when folders failed to open.
C16_AggregatorTerminates ==
    AllReturned(unit_pc, folders) ~> (LoopLeft /\ RecorderReturned)

\* The aggregator has finished a run in which a folder failed to open: it
\* left the loop on Close with fewer batches than folders.
C16_Witness ==
    /\ recorder_pc = "done"
    /\ FailedToOpen # {}
    /\ Opened # {}
    /\ receiver_closed
    /\ jobs_done < jobs_working

BatchesSent == {d \in folders : batch_sends[d] > 0}

QueuedBatches == {i \in 1..Len(channel) : channel[i].signal = "EntriesVec"}

\* C17: no unit's batch send fails and no batch that was sent is discarded:
\* the receiver is closed or dropped only when every unit has returned, and
\* when the aggregator leaves its loop no batch is left in the channel and
\* every batch sent has been merged into the snapshot.
C17_NoBatchLost ==
    /\ \A d \in folders : ~send_failed[d]
    /\ (receiver_closed \/ receiver_dropped) => AllReturned(unit_pc, folders)
    /\ LoopLeft =>
          /\ QueuedBatches = {}
          /\ jobs_done = Cardinality(BatchesSent)
          /\ \A d \in BatchesSent : Range(unit_entries[d]) \subseteq Range(entries_info)

\* The receiver was closed on Close after two batches were queued ahead of
\* it, and both are in the snapshot.
C17_Witness ==
    /\ recorder_pc = "done"
    /\ receiver_closed
    /\ Cardinality(BatchesSent) = 2
    /\ jobs_done = 2
    /\ \A d \in BatchesSent :
          /\ unit_entries[d] # << >>
          /\ Range(unit_entries[d]) \subseteq Range(crawl[1].entries_info)

(***************************************************************************)
(* Serialization of the record (serde, lines 177-206, 244-246, 394)        *)
(***************************************************************************)
\* line 244: the skip_serializing_if predicate of "Octets"
octets_is_zero(diff) == diff = 0

\* EntryInfo's Serialize: "Octets" is left out when octets_is_zero
SerializedEntry(entry) ==
    JsonEntry(entry.entry_type, entry.path,
              IF octets_is_zero(entry.octets) THEN {} ELSE {entry.octets})

\* Crawl's Serialize (DateTime aside)
SerializedCrawl(c) ==
    [ToolRevision |-> c.used_tool_revision,
     EntryCount |-> c.entry_count,
     Entries |-> {SerializedEntry(e) : e \in Range(c.entries_info)}]

\* lines 394-395: what file_recorder writes into its record file
RecordWritten == SerializedCrawl(crawl[1])

\* C18: the record file_recorder writes is accepted by compare_analysis's
\* deserialization and gives back the snapshot: same tool revision, entry
\* count and entries, entries of size 0 included.
C18_RecordRoundTrip ==
    recorder_pc = "done" =>
        /\ FileParses(RecordWritten)
        /\ ParsedCrawl(RecordWritten).used_tool_revision = crawl[1].used_tool_revision
        /\ ParsedCrawl(RecordWritten).entry_count = crawl[1].entry_count
        /\ ParsedCrawl(RecordWritten).entries_info = Range(crawl[1].entries_info)

====
